---------------------------- MODULE Spec2Model ----------------------------
(***************************************************************************)
(* Model of chaperone's control-plane command dispatch                     *)
(* (chaperone/cproc/commands.py) and of the service monitor attachment     *)
(* (chaperone/cproc/pt/simple.py).                                         *)
(*                                                                         *)
(* A command string is a sequence of lexical atoms: an atom is either a    *)
(* single significant character (space, newline, double quote, single      *)
(* quote) or a run of ordinary characters (a word such as start, --wait,   *)
(* svcA).  A token produced by the tokenizer is again a sequence of atoms  *)
(* (the characters of the token).                                          *)
(***************************************************************************)
EXTENDS Integers, Sequences, FiniteSets, TLC

SP == " "
NL == "\n"
DQ == "\""
SQ == "'"

Whitespace == {SP, NL}
Quotes     == {DQ, SQ}

Range(s) == {s[i] : i \in DOMAIN s}

(* An optional value (Python None or a value): a sequence of length 0 or 1 *)
None      == <<>>
Some(v)   == <<v>>

----------------------------------------------------------------------------
(* shlex.split(msg): POSIX-mode shell word splitting.                      *)
(* state is "ws" (between words), "word" (inside a word) or the quote      *)
(* character of the quotation being read.                                  *)

RECURSIVE ShlexScan(_, _, _, _)
ShlexScan(msg, state, tok, out) ==
    IF msg = <<>>
    THEN IF state \in Quotes
         THEN [ok |-> FALSE, toks |-> <<>>]          \* ValueError: No closing quotation
         ELSE IF state = "word"
              THEN [ok |-> TRUE, toks |-> Append(out, tok)]
              ELSE [ok |-> TRUE, toks |-> out]
    ELSE LET c    == Head(msg)
             rest == Tail(msg)
         IN  IF state \in Quotes
             THEN IF c = state
                  THEN ShlexScan(rest, "word", tok, out)
                  ELSE ShlexScan(rest, state, Append(tok, c), out)
             ELSE IF c \in Whitespace
                  THEN IF state = "word"
                       THEN ShlexScan(rest, "ws", <<>>, Append(out, tok))
                       ELSE ShlexScan(rest, "ws", <<>>, out)
                  ELSE IF c \in Quotes
                       THEN ShlexScan(rest, c, tok, out)
                       ELSE ShlexScan(rest, "word", Append(tok, c), out)

ShlexSplit(msg) == ShlexScan(msg, "ws", <<>>, <<>>)

----------------------------------------------------------------------------
(* docopt(COMMAND_DOC, argv, help=False)                                   *)

Verbs == {"status", "loglevel", "stop", "start", "reset", "enable",
          "disable", "dependencies", "shutdown"}

OptionNames == {"--force", "--wait", "--disable", "--enable"}

(* Options each usage line of COMMAND_DOC accepts *)
AllowedOptions(verb) ==
    CASE verb = "stop"  -> {"--force", "--wait", "--disable"}
      [] verb = "start" -> {"--force", "--wait", "--enable"}
      [] verb = "reset" -> {"--force", "--wait"}
      [] OTHER          -> {}

(* Usage lines ending in [<servname> ...] *)
ServnameVerbs == {"stop", "start", "reset", "enable", "disable"}

(* Largest number of positional arguments after the verb; -1 is unbounded *)
MaxPositionals(verb) ==
    IF verb \in ServnameVerbs THEN -1
    ELSE IF verb \in {"loglevel", "shutdown"} THEN 1
    ELSE 0

(* Atoms that begin with "--": a token whose first atom is one of these is *)
(* read by docopt as a long option.                                        *)
LongAtoms == OptionNames \cup {"--w", "--bogus"}

(* docopt accepts a unique prefix of a long option *)
LongPrefixOf(atom) ==
    CASE atom = "--w" -> {"--wait"}
      [] OTHER        -> {}

IsLongOption(tok) == tok # <<>> /\ Head(tok) \in LongAtoms

(* The option a long-option token denotes, "?" when none (docopt then      *)
(* keeps it as an option no usage line accepts).                           *)
ResolveLong(tok) ==
    IF Len(tok) = 1 /\ tok[1] \in OptionNames THEN tok[1]
    ELSE IF Len(tok) = 1 /\ Cardinality(LongPrefixOf(tok[1])) = 1
         THEN CHOOSE o \in LongPrefixOf(tok[1]) : TRUE
         ELSE "?"

(* parse_argv: options may be interleaved with positional arguments *)
Positionals(argv) == SelectSeq(argv, LAMBDA t : ~IsLongOption(t))

RECURSIVE GivenOptions(_)
GivenOptions(argv) ==
    IF argv = <<>> THEN <<>>
    ELSE IF IsLongOption(Head(argv))
         THEN <<ResolveLong(Head(argv))>> \o GivenOptions(Tail(argv))
         ELSE GivenOptions(Tail(argv))

OptKeys == Verbs \cup OptionNames \cup {"<servname>", "<level>", "<delay>"}

(* The first positional must be the verb of a usage line (Command match);  *)
(* every option given must be one the line accepts, each at most once;     *)
(* nothing may be left over.  A failure is DocoptExit.                     *)
Docopt(argv) ==
    LET pos   == Positionals(argv)
        given == GivenOptions(argv)
        verb  == IF pos # <<>> /\ Len(pos[1]) = 1 /\ pos[1][1] \in Verbs
                 THEN pos[1][1] ELSE "?"
        rest  == IF pos = <<>> THEN <<>> ELSE Tail(pos)
        ok    == /\ verb \in Verbs
                 /\ Range(given) \subseteq AllowedOptions(verb)
                 /\ Cardinality(Range(given)) = Len(given)
                 /\ \/ MaxPositionals(verb) = -1
                    \/ Len(rest) <= MaxPositionals(verb)
    IN  IF ~ok THEN [ok |-> FALSE, opts |-> <<>>]
        ELSE [ok |-> TRUE,
              opts |-> [k \in OptKeys |->
                  IF k \in Verbs THEN k = verb
                  ELSE IF k \in OptionNames THEN k \in Range(given)
                  ELSE IF k = "<servname>"
                       THEN (IF verb \in ServnameVerbs THEN rest ELSE <<>>)
                  ELSE IF k = "<level>"
                       THEN (IF verb = "loglevel" /\ rest # <<>>
                             THEN Some(rest[1]) ELSE None)
                  ELSE (IF verb = "shutdown" /\ rest # <<>>
                        THEN Some(rest[1]) ELSE None)]]

----------------------------------------------------------------------------
(* The handlers, in registration order *)

COMMANDS == <<
    [command_name |-> "loglevel",     interactive_only |-> FALSE],
    [command_name |-> "shutdown",     interactive_only |-> FALSE],
    [command_name |-> "status",       interactive_only |-> TRUE],
    [command_name |-> "stop",         interactive_only |-> FALSE],
    [command_name |-> "start",        interactive_only |-> FALSE],
    [command_name |-> "reset",        interactive_only |-> FALSE],
    [command_name |-> "enable",       interactive_only |-> FALSE],
    [command_name |-> "disable",      interactive_only |-> FALSE],
    [command_name |-> "dependencies", interactive_only |-> TRUE] >>

Handlers == DOMAIN COMMANDS

(* match that also looks at the flag named after the command *)
matchFlag(c, opts) ==
    \/ opts[COMMANDS[c].command_name]
    \/ /\ COMMANDS[c].command_name \in {"enable", "disable"}
       /\ opts[IF COMMANDS[c].command_name = "enable" THEN "--enable" ELSE "--disable"]

(* _BaseCommand.match: opts.get(self.command_name, False) *)
match(c, opts) == opts[COMMANDS[c].command_name]

(* The dispatch loop without the interactive_only test *)
EligibleUngated(c, opts, interactive) == match(c, opts)

(* The gate of the dispatch loop *)
Eligible(c, opts, interactive) ==
    match(c, opts) /\ (~COMMANDS[c].interactive_only \/ interactive)

(* The first handler that matches, whatever the session *)
SelectHandlerAnySession(opts, interactive) ==
    IF \E c \in Handlers : match(c, opts)
    THEN CHOOSE c \in Handlers :
            /\ match(c, opts)
            /\ \A d \in Handlers : d < c => ~match(d, opts)
    ELSE 0

(* for c in COMMANDS: if ...: ...; break -- the first eligible handler, 0 if none *)
SelectHandler(opts, interactive) ==
    IF \E c \in Handlers : Eligible(c, opts, interactive)
    THEN CHOOSE c \in Handlers :
            /\ Eligible(c, opts, interactive)
            /\ \A d \in Handlers : d < c => ~Eligible(d, opts, interactive)
    ELSE 0

----------------------------------------------------------------------------
(* Text produced by the handlers.  A result body is a sequence of string   *)
(* pieces (their concatenation is the text).                               *)

USAGE_TEXT == "Usage: telchap ..."          \* str(DocoptExit): the usage section
NO_CLOSING == "No closing quotation"        \* str(ValueError) of shlex

Envelope(tag, body) == [tag |-> tag, body |-> body]

(* str.lower() of a token, atom by atom *)
LowerAtom(a) ==
    CASE a = "NOW"  -> "now"
      [] a = "WARN" -> "warn"
      [] OTHER      -> a

Lower(tok) == [i \in DOMAIN tok |-> LowerAtom(tok[i])]

(* float(s): surrounding whitespace is ignored; the value in milliseconds, *)
(* -1 for ValueError.                                                      *)
RECURSIVE StripLeft(_)
StripLeft(tok) ==
    IF tok # <<>> /\ Head(tok) \in Whitespace THEN StripLeft(Tail(tok)) ELSE tok

RECURSIVE StripRight(_)
StripRight(tok) ==
    IF tok # <<>> /\ tok[Len(tok)] \in Whitespace
    THEN StripRight(SubSeq(tok, 1, Len(tok) - 1)) ELSE tok

FloatOfAtom(a) ==
    CASE a = "5"   -> 5000
      [] a = "0.5" -> 500
      [] OTHER     -> -1

float(tok) ==
    LET s == StripRight(StripLeft(tok))
    IN  IF Len(s) = 1 THEN FloatOfAtom(s[1]) ELSE -1

(* str(float): "{0}".format(delay) *)
FloatStr(ms) ==
    CASE ms = 5000 -> "5.0"
      [] ms = 500  -> "0.5"
      [] ms = 100  -> "0.1"
      [] OTHER     -> "?"

(* delay = 0.1, in milliseconds *)
DefaultDelayMs == 100

(* shutdown that schedules before it validates the delay *)
ShutdownExecEager(opts) ==
    LET delay == opts["<delay>"]
    IN  IF delay = None \/ Lower(delay[1]) = <<"now">>
        THEN [body |-> <<"Shutting down now">>, schedule |-> Some(DefaultDelayMs)]
        ELSE IF float(delay[1]) = -1
             THEN [body |-> <<"Specified delay is not a valid decimal number: ">>
                               \o delay[1],
                   schedule |-> Some(DefaultDelayMs)]
             ELSE [body |-> <<"Shutting down in ", FloatStr(float(delay[1])),
                              " seconds">>,
                   schedule |-> Some(float(delay[1]))]

(* shutdownCommand.do_exec: the reply and the delay handed to call_later   *)
(* (None when nothing is scheduled).                                       *)
ShutdownExec(opts) ==
    LET delay == opts["<delay>"]
    IN  IF delay = None \/ Lower(delay[1]) = <<"now">>
        THEN [body |-> <<"Shutting down now">>, schedule |-> Some(DefaultDelayMs)]
        ELSE IF float(delay[1]) = -1
             THEN [body |-> <<"Specified delay is not a valid decimal number: ">>
                               \o delay[1],
                   schedule |-> None]
             ELSE [body |-> <<"Shutting down in ", FloatStr(float(delay[1])),
                              " seconds">>,
                   schedule |-> Some(float(delay[1]))]

(* lev[2:] when lev.startswith('*.') *)
StripStarDot(tok) ==
    IF Len(tok) = 1 /\ tok[1] = "*.warn" THEN <<"warn">>
    ELSE IF Len(tok) = 1 /\ tok[1] = "*.WARN" THEN <<"WARN">>
    ELSE tok

(* controller.force_log_level(lev): the controller keeps the priority the  *)
(* name denotes; names are told apart without regard to case, and the      *)
(* priority is written here by its name in syslog_info.PRIORITY.           *)
force_log_level(lev) == Some(Lower(lev))

(* syslog_info.PRIORITY[curlev]: the name of the priority kept *)
PRIORITY(curlev) == curlev

(* The level kept with its *. prefix *)
LoglevelExecUnstripped(opts, forced) ==
    LET lev == opts["<level>"]
    IN  IF lev = None
        THEN [body   |-> IF forced = None
                         THEN <<"Forced Logging Level: NOT SET">>
                         ELSE <<"*.">> \o PRIORITY(forced[1]),
              forced |-> forced]
        ELSE [body   |-> <<"All logging set to include priorities >= *.">>
                            \o Lower(lev[1]),
              forced |-> force_log_level(lev[1])]

(* loglevelCommand.do_exec: the reply and the controller's forced level    *)
(* afterwards.                                                             *)
LoglevelExec(opts, forced) ==
    LET lev == opts["<level>"]
    IN  IF lev = None
        THEN [body   |-> IF forced = None
                         THEN <<"Forced Logging Level: NOT SET">>
                         ELSE <<"*.">> \o PRIORITY(forced[1]),
              forced |-> forced]
        ELSE [body   |-> <<"All logging set to include priorities >= *.">>
                            \o Lower(StripStarDot(lev[1])),
              forced |-> force_log_level(StripStarDot(lev[1]))]

(* The handlers that await the service registry *)
RegistryVerbs == {"stop", "start", "reset", "enable", "disable"}

(* wait taken from the flag alone *)
WaitArgFlagOnly(opts, selfInteractive) == opts["--wait"]

(* wait = opts['--wait'] and self.interactive *)
WaitArg(opts, selfInteractive) == opts["--wait"] /\ selfInteractive

(* The call with the names in the opposite order *)
RegistryCallReversed(verb, opts, wait) ==
    LET names == opts["<servname>"]
    IN  [op     |-> verb,
         names  |-> [k \in DOMAIN names |-> names[Len(names) + 1 - k]],
         kwargs |-> [k \in {"force", "wait"} |->
                        IF k = "force" THEN opts["--force"] ELSE wait]]

(* The call a handler makes into controller.services *)
RegistryCall(verb, opts, wait) ==
    [op     |-> verb,
     names  |-> opts["<servname>"],
     kwargs |-> CASE verb = "reset" -> [k \in {"force", "wait"} |->
                                          IF k = "force" THEN opts["--force"] ELSE wait]
                  [] verb = "start" -> [k \in {"force", "wait", "enable"} |->
                                          IF k = "force" THEN opts["--force"]
                                          ELSE IF k = "wait" THEN wait
                                          ELSE opts["--enable"]]
                  [] verb = "stop"  -> [k \in {"force", "wait", "disable"} |->
                                          IF k = "force" THEN opts["--force"]
                                          ELSE IF k = "wait" THEN wait
                                          ELSE opts["--disable"]]
                  [] OTHER          -> [k \in {} |-> FALSE]]

(* What do_exec returns once the registry call has returned *)
RegistryReply(verb, wait) ==
    CASE verb = "reset"   -> <<"services reset.">>
      [] verb = "enable"  -> <<"services enabled.">>
      [] verb = "disable" -> <<"services disabled.">>
      [] verb = "start"   -> IF wait THEN <<"services started.">>
                             ELSE <<"service start-up queued.">>
      [] verb = "stop"    -> IF wait THEN <<"services stopped.">>
                             ELSE <<"services stopping.">>

(* statusCommand / dependenciesCommand: text rendered from the registry *)
ReportText(verb) ==
    IF verb = "status" THEN <<"Running: ...">> ELSE <<"dependency graph">>

(* exec that hands the exception text back unmarked *)
ExecResultRaw(raised, text) == text

(* _BaseCommand.exec: str(result), or "Command error: " + str(ex) *)
ExecResult(raised, text) ==
    IF raised THEN <<"Command error: ">> \o text ELSE text

(* What the registry or controller says when it fails *)
FAILURE_TEXT == <<"no such service">>

----------------------------------------------------------------------------
(* _interpret_command up to the point where a handler is entered: either   *)
(* it returns (None, or an envelope), or it enters handler c with opts.    *)

(* one except clause for everything *)
ErrorTagAlways(exc) == "EXCEPTION"

(* a grammar failure answered as an ordinary result *)
ErrorTagResult(exc) == IF exc = "ValueError" THEN "EXCEPTION" ELSE "RESULT"

(* except Exception -> "EXCEPTION"; except SystemExit -> "COMMAND-ERROR".  *)
(* shlex raises ValueError (an Exception), docopt DocoptExit (a SystemExit) *)
ErrorTag(exc) == IF exc = "ValueError" THEN "EXCEPTION" ELSE "COMMAND-ERROR"

(* Lines 192-205, for a message that is not empty *)
InterpretParsed(msg, interactive) ==
    LET s == ShlexSplit(msg)
    IN  IF ~s.ok
        THEN [kind |-> "return", c |-> 0, opts |-> <<>>,
              result |-> Some(Envelope(ErrorTag("ValueError"), <<NO_CLOSING>>))]
        ELSE LET d == Docopt(s.toks)
             IN  IF ~d.ok
                 THEN [kind |-> "return", c |-> 0, opts |-> <<>>,
                       result |-> Some(Envelope(ErrorTag("DocoptExit"), <<USAGE_TEXT>>))]
                 ELSE LET c == SelectHandler(d.opts, interactive)
                      IN  IF c = 0
                          THEN [kind |-> "return", c |-> 0, opts |-> d.opts,
                                result |-> Some(Envelope("RESULT", <<"?">>))]
                          ELSE [kind |-> "exec", c |-> c, opts |-> d.opts,
                                result |-> None]

(* a blank test that strips the message first *)
InterpretHeadBlank(msg, interactive) ==
    IF Range(msg) \subseteq Whitespace
    THEN [kind |-> "return", result |-> None, c |-> 0, opts |-> <<>>]
    ELSE InterpretParsed(msg, interactive)

(* if not msg: return *)
InterpretHead(msg, interactive) ==
    IF msg = <<>>
    THEN [kind |-> "return", result |-> None, c |-> 0, opts |-> <<>>]
    ELSE InterpretParsed(msg, interactive)

(* data.decode().split("\n") *)
RECURSIVE SplitLines(_, _)
SplitLines(data, cur) ==
    IF data = <<>> THEN <<cur>>
    ELSE IF Head(data) = NL
         THEN <<cur>> \o SplitLines(Tail(data), <<>>)
         ELSE SplitLines(Tail(data), Append(cur, Head(data)))

----------------------------------------------------------------------------
(* State of the command server *)

VARIABLES
    tasks,          \* the _command_task coroutines created so far, in creation order
    hInteractive,   \* handler -> its `interactive` attribute (class default False)
    regLog,         \* calls made into controller.services, in order
    forcedLevel,    \* the controller's forced log level (None when not set)
    scheduled,      \* delays handed to call_later(delay, controller.kill_system)
    transport       \* connection -> what was written to it, and close() calls

cmdVars == <<tasks, hInteractive, regLog, forcedLevel, scheduled, transport>>

(* The pipe protocol is built with interactive False, a socket connection's *)
(* protocol with interactive=True.                                          *)
Socks == {"sock1", "sock2"}
Conns == {"pipe"} \cup Socks
ProtocolInteractive(conn) == conn \in Socks

(* Commands received over the whole run *)
MaxTasks == 2

NewTask(conn, cmd, interactive) ==
    [conn |-> conn, cmd |-> cmd, interactive |-> interactive, pc |-> "new",
     c |-> 0, raised |-> FALSE, wait |-> FALSE, result |-> None]

InitCmd ==
    /\ tasks = <<>>
    /\ hInteractive = [c \in Handlers |-> FALSE]
    /\ regLog = <<>>
    /\ forcedLevel = None
    /\ scheduled = <<>>
    /\ transport = [conn \in Conns |-> [written |-> <<>>, closes |-> 0]]

(* _command_task after _interpret_command has returned `result`:           *)
(* on an interactive task result.encode() is written and the transport     *)
(* closed; result None has no encode(), the task dies of AttributeError.   *)
TaskEnd(t, result) ==
    IF t.interactive /\ result = None
    THEN [t EXCEPT !.pc = "failed", !.result = result]
    ELSE [t EXCEPT !.pc = "done", !.result = result]

(* The task has entered handler c; `raised` tells whether do_exec raised *)
Entered(t, c, raised) == [t EXCEPT !.c = c, !.raised = raised]

TransportEndAnswering(tr, t, result) ==
    IF result # None
    THEN [tr EXCEPT ![t.conn] = [written |-> Append(@.written, result[1]),
                                 closes  |-> @.closes + 1]]
    ELSE tr

TransportEnd(tr, t, result) ==
    IF t.interactive /\ result # None
    THEN [tr EXCEPT ![t.conn] = [written |-> Append(@.written, result[1]),
                                 closes  |-> @.closes + 1]]
    ELSE tr

----------------------------------------------------------------------------
(* State of one SimpleProcess (one process handle) *)

VARIABLES
    monTasks,       \* the _monitor_service tasks created so far: the state of
                    \* each, what its self.wait() returned, and for which child
                    \* (children are numbered as they are spawned)
    futMonitor,     \* self._fut_monitor: 0 for None, else an index of monTasks
    starts,         \* the process_started_co calls made so far: their positions
    proc,           \* the child: running, or the result self.wait() returns
    abnormalCalls   \* _abnormal_exit invocations: the monitor, the code passed,
                    \* and the child that had terminated

monVars == <<monTasks, futMonitor, starts, proc, abnormalCalls>>

InitMon ==
    /\ monTasks = <<>>
    /\ futMonitor = 0
    /\ starts = <<>>
    /\ proc = [running |-> TRUE, isInt |-> TRUE, code |-> 0]
    /\ abnormalCalls = <<>>

----------------------------------------------------------------------------
(* State of the CommandServer and of the files behind its two transports *)

CHAP_FIFO == "/dev/chaperone"
CHAP_SOCK == "/dev/chaperone.sock"

(* A FIFO name a caller may hand to CommandServer(controller, filename) *)
OtherFifo == "/run/chaperone.test"

FifoNames == {CHAP_FIFO, OtherFifo}
Paths     == {CHAP_FIFO, CHAP_SOCK, OtherFifo}
FileKinds == {"absent", "fifo", "socket", "file"}

VARIABLES
    fs,             \* path -> what is at that path
    fsMode,         \* path -> "0777" once chmod(path, 0o777) was applied
    srv             \* the CommandServer: its _fifoname, its position, its _iserve

fsVars == <<fs, fsMode, srv>>

vars == <<tasks, hInteractive, regLog, forcedLevel, scheduled, transport,
          monTasks, futMonitor, starts, proc, abnormalCalls,
          fs, fsMode, srv>>

(* CommandServer.__init__ *)
NewServer(filename) ==
    [fifoname |-> filename, pc |-> "init", opened |-> FALSE, iserve |-> "none"]

InitFs ==
    /\ fs = [p \in Paths |-> "absent"]
    /\ fsMode = [p \in Paths |-> "umask"]
    /\ srv = NewServer(CHAP_FIFO)

----------------------------------------------------------------------------
(* The command server's steps *)

(* CommandProtocol.data_received.  A closed transport delivers no data,    *)
(* and the tasks one buffer created have all run their first step (the     *)
(* loop runs them ahead of the next read of the same transport) before the *)
(* transport delivers another buffer.                                      *)
DataReceived(conn, data) ==
    /\ conn \in Socks => transport[conn].closes = 0
    /\ \A k \in DOMAIN tasks : tasks[k].conn = conn => tasks[k].pc # "new"
    \* connections are numbered in the order in which they first deliver data
    /\ conn = "sock2" => \E k \in DOMAIN tasks : tasks[k].conn = "sock1"
    /\ LET lines == SplitLines(data, <<>>)
           new   == IF ProtocolInteractive(conn)
                    THEN <<NewTask(conn, data, TRUE)>>
                    ELSE [k \in 1..Len(lines) |-> NewTask(conn, lines[k], FALSE)]
       IN  /\ Len(tasks) + Len(new) <= MaxTasks
           /\ tasks' = tasks \o new
    /\ UNCHANGED <<hInteractive, regLog, forcedLevel, scheduled, transport>>
    /\ UNCHANGED monVars
    /\ UNCHANGED fsVars

(* The event loop starts tasks in the order ensure_future created them *)
Runnable(i) ==
    /\ i \in DOMAIN tasks
    /\ tasks[i].pc = "new"
    /\ \A j \in 1..(i - 1) : tasks[j].pc # "new"

(* What _interpret_command does with task i's command *)
HeadOf(i) == InterpretHead(tasks[i].cmd, ProtocolInteractive(tasks[i].conn))

(* exec: self.interactive = protocol.interactive *)
SetInteractive(i, c) ==
    [hInteractive EXCEPT ![c] = ProtocolInteractive(tasks[i].conn)]

(* _command_task ends with `result` *)
Finish(i, c, raised, result) ==
    /\ tasks' = [tasks EXCEPT ![i] = TaskEnd(Entered(@, c, raised), result)]
    /\ transport' = TransportEnd(transport, tasks[i], result)

(* _interpret_command returns without entering a handler: empty message,   *)
(* tokenizer or grammar failure, or no eligible handler.                   *)
InterpretReturn(i) ==
    /\ Runnable(i)
    /\ LET h == HeadOf(i)
       IN  /\ h.kind = "return"
           /\ Finish(i, 0, FALSE, h.result)
    /\ UNCHANGED <<hInteractive, regLog, forcedLevel, scheduled>>
    /\ UNCHANGED monVars
    /\ UNCHANGED fsVars

(* A handler that awaits controller.services: runs up to the await *)
ExecRegistry(i) ==
    /\ Runnable(i)
    /\ LET h    == HeadOf(i)
           verb == COMMANDS[h.c].command_name
           wait == IF verb \in {"reset", "start", "stop"}
                   THEN WaitArg(h.opts, SetInteractive(i, h.c)[h.c])
                   ELSE FALSE
       IN  /\ h.kind = "exec"
           /\ verb \in RegistryVerbs
           /\ hInteractive' = SetInteractive(i, h.c)
           /\ regLog' = Append(regLog, [task |-> i,
                                        call |-> RegistryCall(verb, h.opts, wait)])
           /\ tasks' = [tasks EXCEPT ![i] = [@ EXCEPT !.pc = "awaiting",
                                                      !.c = h.c,
                                                      !.wait = wait]]
    /\ UNCHANGED <<forcedLevel, scheduled, transport>>
    /\ UNCHANGED monVars
    /\ UNCHANGED fsVars

(* wait computed anew from the handler's attribute as do_exec resumes *)
ReplyWaitReread(i) == "--wait" \in Range(tasks[i].cmd) /\ hInteractive[tasks[i].c]

(* The local `wait` of the suspended do_exec, as it resumes *)
ReplyWait(i) == tasks[i].wait

(* The registry call returns: do_exec returns its reply *)
RegistryReturn(i) ==
    /\ i \in DOMAIN tasks
    /\ tasks[i].pc = "awaiting"
    /\ LET verb == COMMANDS[tasks[i].c].command_name
       IN  Finish(i, tasks[i].c, FALSE, Some(Envelope("RESULT",
                     ExecResult(FALSE, RegistryReply(verb, ReplyWait(i))))))
    /\ UNCHANGED <<hInteractive, regLog, forcedLevel, scheduled>>
    /\ UNCHANGED monVars
    /\ UNCHANGED fsVars

(* The registry call raises *)
RegistryRaise(i) ==
    /\ i \in DOMAIN tasks
    /\ tasks[i].pc = "awaiting"
    /\ Finish(i, tasks[i].c, TRUE,
              Some(Envelope("RESULT", ExecResult(TRUE, FAILURE_TEXT))))
    /\ UNCHANGED <<hInteractive, regLog, forcedLevel, scheduled>>
    /\ UNCHANGED monVars
    /\ UNCHANGED fsVars

(* loglevelCommand *)
ExecLoglevel(i) ==
    /\ Runnable(i)
    /\ LET h == HeadOf(i)
           r == LoglevelExec(h.opts, forcedLevel)
       IN  /\ h.kind = "exec"
           /\ COMMANDS[h.c].command_name = "loglevel"
           /\ hInteractive' = SetInteractive(i, h.c)
           /\ forcedLevel' = r.forced
           /\ Finish(i, h.c, FALSE, Some(Envelope("RESULT", ExecResult(FALSE, r.body))))
    /\ UNCHANGED <<regLog, scheduled>>
    /\ UNCHANGED monVars
    /\ UNCHANGED fsVars

(* shutdownCommand *)
ExecShutdown(i) ==
    /\ Runnable(i)
    /\ LET h == HeadOf(i)
           r == ShutdownExec(h.opts)
       IN  /\ h.kind = "exec"
           /\ COMMANDS[h.c].command_name = "shutdown"
           /\ hInteractive' = SetInteractive(i, h.c)
           /\ scheduled' = scheduled \o r.schedule
           /\ Finish(i, h.c, FALSE, Some(Envelope("RESULT", ExecResult(FALSE, r.body))))
    /\ UNCHANGED <<regLog, forcedLevel>>
    /\ UNCHANGED monVars
    /\ UNCHANGED fsVars

(* statusCommand, dependenciesCommand: rendering may fail in the registry *)
ExecReport(i, raised) ==
    /\ Runnable(i)
    /\ LET h    == HeadOf(i)
           verb == COMMANDS[h.c].command_name
       IN  /\ h.kind = "exec"
           /\ verb \in {"status", "dependencies"}
           /\ hInteractive' = SetInteractive(i, h.c)
           /\ Finish(i, h.c, raised, Some(Envelope("RESULT",
                        ExecResult(raised, IF raised THEN FAILURE_TEXT
                                           ELSE ReportText(verb)))))
    /\ UNCHANGED <<regLog, forcedLevel, scheduled>>
    /\ UNCHANGED monVars
    /\ UNCHANGED fsVars

TaskStep ==
    \E i \in 1..MaxTasks :
        \/ InterpretReturn(i)
        \/ ExecRegistry(i)
        \/ RegistryReturn(i)
        \/ RegistryRaise(i)
        \/ ExecLoglevel(i)
        \/ ExecShutdown(i)
        \/ \E raised \in BOOLEAN : ExecReport(i, raised)

----------------------------------------------------------------------------
(* The process handle's steps (SimpleProcess) *)

(* process_started_co calls made over the whole run *)
MaxStarts == 3

(* What self.wait() can return: an exit code, or something that is no int *)
WaitResults ==
    {[running |-> FALSE, isInt |-> TRUE, code |-> k] : k \in {0, 3, -15}}
    \cup {[running |-> FALSE, isInt |-> FALSE, code |-> 0]}

(* The child is running: self.wait() has not returned *)
Running == [running |-> TRUE, isInt |-> TRUE, code |-> 0]

(* Task.cancel(): a task that is done or cancelled is left as it is; a     *)
(* task suspended in an await, or not yet resumed from it, has the         *)
(* cancellation delivered to it when it next runs.                         *)
CancelRequest(st) == IF st \in {"waiting", "ready"} THEN "cancelling" ELSE st

(* Task.cancelled() *)
IsCancelled(st) == st = "cancelled"

(* Lines 9-11: cancel the monitor _fut_monitor names and clear the name.   *)
(* The pair is (monTasks, futMonitor) afterwards.                          *)
CancelPrior(mt, fm) ==
    IF fm # 0 /\ ~IsCancelled(mt[fm].st)
    THEN [mon |-> [mt EXCEPT ![fm].st = CancelRequest(@)], fut |-> 0]
    ELSE [mon |-> mt, fut |-> fm]

(* process_started_co is entered (the child was just spawned) and runs up  *)
(* to the await of do_startup_pause.                                       *)
StartBegin ==
    /\ Len(starts) < MaxStarts
    /\ LET r == CancelPrior(monTasks, futMonitor)
       IN  /\ monTasks' = r.mon
           /\ futMonitor' = r.fut
    /\ starts' = Append(starts, "pause")
    /\ proc' = Running
    /\ UNCHANGED abnormalCalls
    /\ UNCHANGED cmdVars
    /\ UNCHANGED fsVars

(* do_startup_pause returns *)
PauseDone(k) ==
    /\ k \in DOMAIN starts
    /\ starts[k] = "pause"
    /\ starts' = [starts EXCEPT ![k] = "pidfile"]
    /\ UNCHANGED <<monTasks, futMonitor, proc, abnormalCalls>>
    /\ UNCHANGED cmdVars
    /\ UNCHANGED fsVars

(* do_startup_pause or wait_for_pidfile raises: the call ends there *)
StartFails(k) ==
    /\ k \in DOMAIN starts
    /\ starts[k] \in {"pause", "pidfile"}
    /\ starts' = [starts EXCEPT ![k] = "failed"]
    /\ UNCHANGED <<monTasks, futMonitor, proc, abnormalCalls>>
    /\ UNCHANGED cmdVars
    /\ UNCHANGED fsVars

(* Lines 23-24: the monitor task a successful start creates and records;   *)
(* its self.wait() returns at once when the child (the n-th spawned) has   *)
(* exited already, and no child is put down for it until then.             *)
AttachMonitor(mt, child, n) ==
    [mon |-> Append(mt, [st    |-> IF child.running THEN "waiting" ELSE "ready",
                         res   |-> child,
                         child |-> IF child.running THEN 0 ELSE n]),
     fut |-> Len(mt) + 1]

(* wait_for_pidfile returns: the monitor is attached *)
PidfileDone(k) ==
    /\ k \in DOMAIN starts
    /\ starts[k] = "pidfile"
    /\ starts' = [starts EXCEPT ![k] = "done"]
    /\ LET r == AttachMonitor(monTasks, proc, Len(starts))
       IN  /\ monTasks' = r.mon
           /\ futMonitor' = r.fut
    /\ UNCHANGED <<proc, abnormalCalls>>
    /\ UNCHANGED cmdVars
    /\ UNCHANGED fsVars

(* The child terminates: the self.wait() of every monitor suspended in it  *)
(* has its result, and the monitor is due to run                           *)
ProcExit(res) ==
    /\ proc.running
    /\ starts # <<>>
    /\ proc' = res
    /\ monTasks' = [m \in DOMAIN monTasks |->
                       IF monTasks[m].st = "waiting"
                       THEN [st |-> "ready", res |-> res, child |-> Len(starts)]
                       ELSE monTasks[m]]
    /\ UNCHANGED <<futMonitor, starts, abnormalCalls>>
    /\ UNCHANGED cmdVars
    /\ UNCHANGED fsVars

(* Any exit code but zero *)
IsAbnormalNonZero(res) == res.isInt /\ res.code # 0

(* isinstance(result, int) and result > 0 *)
IsAbnormal(res) == res.isInt /\ res.code > 0

(* _monitor_service resumes with what self.wait() returned *)
MonitorWake(m) ==
    /\ m \in DOMAIN monTasks
    /\ monTasks[m].st = "ready"
    /\ monTasks' = [monTasks EXCEPT ![m].st = "done"]
    /\ abnormalCalls' = IF IsAbnormal(monTasks[m].res)
                        THEN Append(abnormalCalls,
                                    [monitor |-> m, code |-> monTasks[m].res.code,
                                     child |-> monTasks[m].child])
                        ELSE abnormalCalls
    /\ UNCHANGED <<futMonitor, starts, proc>>
    /\ UNCHANGED cmdVars
    /\ UNCHANGED fsVars

(* The cancellation reaches the monitor *)
MonitorCancelled(m) ==
    /\ m \in DOMAIN monTasks
    /\ monTasks[m].st = "cancelling"
    /\ monTasks' = [monTasks EXCEPT ![m].st = "cancelled"]
    /\ UNCHANGED <<futMonitor, starts, proc, abnormalCalls>>
    /\ UNCHANGED cmdVars
    /\ UNCHANGED fsVars

NextMon ==
    \/ StartBegin
    \/ \E k \in 1..MaxStarts : PauseDone(k) \/ StartFails(k) \/ PidfileDone(k)
    \/ \E res \in WaitResults : ProcExit(res)
    \/ \E m \in 1..MaxStarts : MonitorWake(m) \/ MonitorCancelled(m)

----------------------------------------------------------------------------
(* The CommandServer's steps *)

(* maybe_remove: the file is unlinked when it is there *)
maybe_remove(f, path) == [f EXCEPT ![path] = "absent"]

(* os.mkfifo, reached only when nothing is at the path *)
mkfifo(f, path) == IF f[path] = "absent" THEN [f EXCEPT ![path] = "fifo"] ELSE f

(* run() of the CommandServer: _create_server calls _open, which replaces  *)
(* whatever is at self._fifoname by a new FIFO and makes it world-writable *)
ServerOpen ==
    /\ srv.pc = "init"
    /\ fs' = mkfifo(maybe_remove(fs, srv.fifoname), srv.fifoname)
    /\ fsMode' = [fsMode EXCEPT ![srv.fifoname] = "0777"]
    /\ srv' = [srv EXCEPT !.pc = "open", !.opened = TRUE]
    /\ UNCHANGED cmdVars
    /\ UNCHANGED monVars

(* CommandServer.server_running up to the end of _iserve's _create_server: *)
(* the _InteractiveServer exists and its socket is bound at CHAP_SOCK      *)
ServerRunning ==
    /\ srv.pc = "open"
    /\ srv.iserve = "none"
    /\ fs' = [maybe_remove(fs, CHAP_SOCK) EXCEPT ![CHAP_SOCK] = "socket"]
    /\ fsMode' = [fsMode EXCEPT ![CHAP_SOCK] = "umask"]
    /\ srv' = [srv EXCEPT !.iserve = "bound"]
    /\ UNCHANGED cmdVars
    /\ UNCHANGED monVars

(* _InteractiveServer.server_running *)
IserveRunning ==
    /\ srv.pc = "open"
    /\ srv.iserve = "bound"
    /\ fsMode' = [fsMode EXCEPT ![CHAP_SOCK] = "0777"]
    /\ srv' = [srv EXCEPT !.iserve = "running"]
    /\ UNCHANGED fs
    /\ UNCHANGED cmdVars
    /\ UNCHANGED monVars

(* _InteractiveServer.close *)
IserveClose(f) == maybe_remove(f, CHAP_SOCK)

(* CommandServer.close: the file at CHAP_FIFO is removed, and the socket   *)
(* file when there is an _iserve                                           *)
ServerClose ==
    /\ srv.pc = "open"
    /\ fs' = IF srv.iserve # "none"
             THEN IserveClose(maybe_remove(fs, CHAP_FIFO))
             ELSE maybe_remove(fs, CHAP_FIFO)
    /\ srv' = [srv EXCEPT !.pc = "closed",
                          !.iserve = IF @ = "none" THEN "none" ELSE "closed"]
    /\ UNCHANGED fsMode
    /\ UNCHANGED cmdVars
    /\ UNCHANGED monVars

NextFs == ServerOpen \/ ServerRunning \/ IserveRunning \/ ServerClose

----------------------------------------------------------------------------
(* Inputs *)

RECURSIVE JoinWords(_)
JoinWords(ws) ==
    IF ws = <<>> THEN <<>>
    ELSE IF Len(ws) = 1 THEN ws[1]
    ELSE ws[1] \o <<SP>> \o JoinWords(Tail(ws))

(* The line made of the given words, separated by single spaces *)
Line(words) == JoinWords([k \in DOMAIN words |-> <<words[k]>>])

(* Lines the concurrent specification feeds to either transport *)
CmdLines ==
    { <<>>,
      Line(<<"start", "--wait", "svcA">>),
      Line(<<"stop", "--wait">>),
      Line(<<"reset", "svcA">>),
      Line(<<"status">>),
      Line(<<"loglevel">>),
      Line(<<"shutdown", "now">>) }

(* A pipe buffer holds one line or two; a socket buffer is one command,   *)
(* whether or not a newline is in it                                      *)
PipeBuffers == CmdLines \cup {a \o <<NL>> \o b : a \in CmdLines \ {<<>>}, b \in CmdLines}
SockBuffers == CmdLines \cup {Line(<<"stop">>) \o <<NL>> \o Line(<<"svcA">>)}

(* Words and lexemes the single-command specification builds lines from *)
WideWords ==
    Verbs \cup OptionNames \cup
    {"--w", "svcA", "frobnicate", "now", "NOW", "5", "abc"}

Lexemes ==
    {<<w>> : w \in WideWords}
    \cup { <<>>,                                   \* nothing: adjacent separators
           <<DQ, "svcA">>,                         \* an unclosed quotation
           <<DQ, "svcA", SP, "svcB", DQ>> }        \* a quoted name with a space

(* Most lexemes on a line *)
MaxWords == 2

WideLines ==
    {JoinWords(ws) : ws \in UNION {[1..n -> Lexemes] : n \in 0..MaxWords}}

----------------------------------------------------------------------------
(* Specifications *)

Init == InitCmd /\ InitMon /\ InitFs

Receive ==
    \/ \E data \in PipeBuffers : DataReceived("pipe", data)
    \/ \E conn \in Socks, data \in SockBuffers : DataReceived(conn, data)

Next == Receive \/ TaskStep

(* Commands arriving on the pipe and on socket connections, concurrently *)
Spec == Init /\ [][Next]_vars

(* One command, drawn from a wide set of lines, on either transport *)
InitLine ==
    /\ \E conn \in {"pipe", "sock1"}, cmd \in WideLines :
          tasks = <<NewTask(conn, cmd, ProtocolInteractive(conn))>>
    /\ hInteractive = [c \in Handlers |-> FALSE]
    /\ regLog = <<>>
    /\ forcedLevel = None
    /\ scheduled = <<>>
    /\ transport = [conn \in Conns |-> [written |-> <<>>, closes |-> 0]]
    /\ InitMon
    /\ InitFs

SpecLine == InitLine /\ [][TaskStep]_vars

(* One process handle: starts, the child's exits, its monitors *)
SpecMon == Init /\ [][NextMon]_vars

(* The same, the event loop running every task that is due to run *)
SpecMonFair ==
    /\ SpecMon
    /\ \A m \in 1..MaxStarts :
          WF_vars(MonitorWake(m)) /\ WF_vars(MonitorCancelled(m))

(* A set of words as a sequence *)
RECURSIVE SeqOf(_)
SeqOf(S) ==
    IF S = {} THEN <<>>
    ELSE LET x == CHOOSE y \in S : TRUE IN <<x>> \o SeqOf(S \ {x})

(* Well-formed stop, start and reset lines: any of the verb's flags, put   *)
(* before or after the names, and no name, one, or two                     *)
NameLists == {<<>>, <<"svcA">>, <<"svcB", "svcA">>}

RegLines ==
    {Line(<<verb>> \o SeqOf(flags) \o names) :
        verb \in {"stop", "start", "reset"}, flags \in SUBSET OptionNames,
        names \in NameLists}
    \cup
    {Line(<<verb>> \o names \o SeqOf(flags)) :
        verb \in {"stop", "start", "reset"}, flags \in SUBSET OptionNames,
        names \in NameLists}

WellFormed(cmd) ==
    Range(cmd) \cap OptionNames \subseteq AllowedOptions(cmd[1])

InitReg ==
    /\ \E conn \in {"pipe", "sock1"}, cmd \in {l \in RegLines : WellFormed(l)} :
          tasks = <<NewTask(conn, cmd, ProtocolInteractive(conn))>>
    /\ hInteractive = [c \in Handlers |-> FALSE]
    /\ regLog = <<>>
    /\ forcedLevel = None
    /\ scheduled = <<>>
    /\ transport = [conn \in Conns |-> [written |-> <<>>, closes |-> 0]]
    /\ InitMon
    /\ InitFs

NextReg ==
    \E i \in 1..MaxTasks : ExecRegistry(i) \/ RegistryReturn(i) \/ RegistryRaise(i)

(* One stop, start or reset command on either transport *)
SpecReg == InitReg /\ [][NextReg]_vars

(* loglevel commands on either transport, the controller holding any      *)
(* forced level earlier commands may have left                             *)
LogLines ==
    { Line(<<"loglevel">>),
      Line(<<"loglevel", "warn">>),
      Line(<<"loglevel", "*.warn">>),
      Line(<<"loglevel", "*.WARN">>),
      Line(<<"loglevel", "info">>) }

LogBuffers == LogLines \cup {a \o <<NL>> \o b : a, b \in LogLines}

InitLog ==
    /\ tasks = <<>>
    /\ hInteractive = [c \in Handlers |-> FALSE]
    /\ regLog = <<>>
    /\ forcedLevel \in {None, Some(<<"warn">>), Some(<<"info">>)}
    /\ scheduled = <<>>
    /\ transport = [conn \in Conns |-> [written |-> <<>>, closes |-> 0]]
    /\ InitMon
    /\ InitFs

ReceiveLog ==
    \/ \E data \in LogBuffers : DataReceived("pipe", data)
    \/ \E conn \in Socks, data \in LogLines : DataReceived(conn, data)

NextLog == ReceiveLog \/ \E i \in 1..MaxTasks : ExecLoglevel(i)

SpecLog == InitLog /\ [][NextLog]_vars

(* One CommandServer, constructed with either FIFO name, over any files a  *)
(* previous run may have left behind                                       *)
InitServer ==
    /\ InitCmd
    /\ InitMon
    /\ fs \in [Paths -> FileKinds]
    /\ fsMode = [p \in Paths |-> "umask"]
    /\ \E filename \in FifoNames : srv = NewServer(filename)

SpecFs == InitServer /\ [][NextFs]_vars

----------------------------------------------------------------------------
(* Properties *)

(* The task's _command_task coroutine has ended *)
Ended(t) == t.pc \in {"done", "failed"}

(* The words of a line that holds no quotation *)
PlainWords(cmd) == SelectSeq(cmd, LAMBDA a : a \notin Whitespace)

(* Its words that are not options *)
PlainPositionals(cmd) == SelectSeq(PlainWords(cmd), LAMBDA a : a \notin LongAtoms)

Unquoted(cmd) == Range(cmd) \cap Quotes = {}

HandlerOf(verb) == CHOOSE c \in Handlers : COMMANDS[c].command_name = verb

ActiveMonitors == {m \in DOMAIN monTasks : monTasks[m].st \in {"waiting", "ready"}}

(* C1: a handle never has two monitor tasks that are scheduled and neither *)
(* finished nor cancelled (a monitor whose cancellation was requested is   *)
(* not counted).  Refuted: two overlapping starts each attach a monitor.   *)
C1_AtMostOneActiveMonitor == Cardinality(ActiveMonitors) <= 1

(* C2: every start, stop or reset call reaches the registry with           *)
(* wait = (--wait is on the line and the command came over a socket).      *)
C2_WaitIsFlagAndInteractive ==
    \A k \in DOMAIN regLog :
        LET e == regLog[k]
            t == tasks[e.task]
        IN  e.call.op \in {"start", "stop", "reset"} =>
                e.call.kwargs["wait"] = ("--wait" \in Range(t.cmd) /\ t.conn \in Socks)

(* C2 witness: --wait over the pipe reached the registry with wait false   *)
(* and --wait over a socket with wait true.                                *)
C2_Witness ==
    \E j, k \in DOMAIN regLog :
        /\ tasks[regLog[j].task].conn = "pipe"
        /\ "--wait" \in Range(tasks[regLog[j].task].cmd)
        /\ regLog[j].call.kwargs["wait"] = FALSE
        /\ tasks[regLog[k].task].conn \in Socks
        /\ "--wait" \in Range(tasks[regLog[k].task].cmd)
        /\ regLog[k].call.kwargs["wait"] = TRUE

(* C3: once the task of a buffer received on a socket has ended, exactly   *)
(* one envelope was written to the connection and it was closed exactly    *)
(* once.  Refuted by the empty buffer.                                     *)
C3_EveryBufferAnswered ==
    \A i \in DOMAIN tasks :
        (tasks[i].interactive /\ Ended(tasks[i])) =>
            /\ Len(transport[tasks[i].conn].written) = 1
            /\ transport[tasks[i].conn].closes = 1

(* C4 as claimed: the line frobnicate yields exactly RESULT\n? *)
C4_UnknownVerbIsQuestionMark ==
    \A i \in DOMAIN tasks :
        (Ended(tasks[i]) /\ tasks[i].cmd = Line(<<"frobnicate">>)) =>
            tasks[i].result = Some(Envelope("RESULT", <<"?">>))

(* C4 amended: a line without quotation whose first positional word is no  *)
(* verb of the grammar yields the COMMAND-ERROR envelope; RESULT\n? is     *)
(* produced only for status or dependencies on a non-interactive session.  *)
C4_UnknownVerbIsCommandError ==
    \A i \in DOMAIN tasks :
        LET t   == tasks[i]
            pos == PlainPositionals(t.cmd)
        IN  Ended(t) =>
              /\ (t.cmd # <<>> /\ Unquoted(t.cmd) /\ (pos = <<>> \/ pos[1] \notin Verbs))
                    => t.result = Some(Envelope("COMMAND-ERROR", <<USAGE_TEXT>>))
              /\ t.result = Some(Envelope("RESULT", <<"?">>))
                    => /\ ~ProtocolInteractive(t.conn)
                       /\ Range(t.cmd) \cap {"status", "dependencies"} # {}

(* C4 witness: frobnicate was answered with COMMAND-ERROR *)
C4_Witness ==
    \E i \in DOMAIN tasks :
        /\ Ended(tasks[i])
        /\ tasks[i].cmd = Line(<<"frobnicate">>)
        /\ tasks[i].result = Some(Envelope("COMMAND-ERROR", <<USAGE_TEXT>>))

(* C5: a handler that raised leaves its command with the result            *)
(* RESULT\nCommand error: <description>; the command's task ends normally  *)
(* and, on a socket, the reply is written and the connection closed.       *)
C5_HandlerErrorIsResult ==
    \A i \in DOMAIN tasks :
        tasks[i].raised =>
            /\ tasks[i].pc = "done"
            /\ tasks[i].result =
                  Some(Envelope("RESULT", <<"Command error: ">> \o FAILURE_TEXT))
            /\ tasks[i].interactive =>
                  /\ \E k \in DOMAIN transport[tasks[i].conn].written :
                        transport[tasks[i].conn].written[k] = tasks[i].result[1]
                  /\ transport[tasks[i].conn].closes >= 1

(* C5 witness: status raised on a socket, and a command started after it   *)
(* (tasks start in order, and status raises in its first step) entered its *)
(* handler and completed with an ordinary reply.                           *)
C5_Witness ==
    \E i, j \in DOMAIN tasks :
        /\ i < j
        /\ tasks[i].raised /\ tasks[i].c = HandlerOf("status")
        /\ tasks[j].pc = "done" /\ ~tasks[j].raised /\ tasks[j].c # 0

(* C6 as claimed: an empty or whitespace-only line produces no result *)
C6_BlankLineIsNoOp ==
    \A i \in DOMAIN tasks :
        (Ended(tasks[i]) /\ Range(tasks[i].cmd) \subseteq Whitespace) =>
            tasks[i].result = None

(* C6 amended: an empty line produces no result; a line of whitespace only *)
(* produces the COMMAND-ERROR envelope; neither enters a handler or        *)
(* touches the registry, the log level or the shutdown timer.              *)
C6_BlankLineOutcome ==
    \A i \in DOMAIN tasks :
        (Ended(tasks[i]) /\ Range(tasks[i].cmd) \subseteq Whitespace) =>
            /\ tasks[i].result = IF tasks[i].cmd = <<>> THEN None
                                 ELSE Some(Envelope("COMMAND-ERROR", <<USAGE_TEXT>>))
            /\ tasks[i].c = 0
            /\ regLog = <<>> /\ scheduled = <<>> /\ forcedLevel = None

(* C6 witness: a line holding one space was answered with COMMAND-ERROR *)
C6_Witness ==
    \E i \in DOMAIN tasks :
        /\ Ended(tasks[i])
        /\ tasks[i].cmd = <<SP>>
        /\ tasks[i].result = Some(Envelope("COMMAND-ERROR", <<USAGE_TEXT>>))

(* C7: an interactive-only handler is entered only on an interactive       *)
(* session; status or dependencies on the pipe enters no handler and       *)
(* yields RESULT\n?.                                                       *)
C7_InteractiveOnlyGate ==
    \A i \in DOMAIN tasks :
        LET t == tasks[i]
        IN  /\ (t.c # 0 /\ COMMANDS[t.c].interactive_only) => ProtocolInteractive(t.conn)
            /\ (Ended(t) /\ ~ProtocolInteractive(t.conn)
                  /\ t.cmd \in {Line(<<"status">>), Line(<<"dependencies">>)})
                  => (t.c = 0 /\ t.result = Some(Envelope("RESULT", <<"?">>)))

(* C7 witness: status over the pipe was answered with RESULT\n? *)
C7_Witness ==
    \E i \in DOMAIN tasks :
        /\ Ended(tasks[i])
        /\ tasks[i].conn = "pipe"
        /\ tasks[i].cmd = Line(<<"status">>)
        /\ tasks[i].result = Some(Envelope("RESULT", <<"?">>))

(* C8: for a line the grammar accepts exactly one handler matches (the one *)
(* of the line's verb), and the handler entered is the first in COMMANDS   *)
(* that matches and passes the interactivity gate, none when there is none.*)
C8_FirstAndOnlyMatch ==
    \A i \in DOMAIN tasks :
        LET t == tasks[i]
            s == ShlexSplit(t.cmd)
            d == Docopt(s.toks)
            pinter == ProtocolInteractive(t.conn)
        IN  (t.pc # "new" /\ t.cmd # <<>> /\ s.ok /\ d.ok) =>
              /\ Cardinality({c \in Handlers : match(c, d.opts)}) = 1
              /\ Unquoted(t.cmd) =>
                    match(HandlerOf(PlainPositionals(t.cmd)[1]), d.opts)
              /\ t.c # 0 =>
                    /\ match(t.c, d.opts)
                    /\ ~COMMANDS[t.c].interactive_only \/ pinter
                    /\ \A b \in 1..(t.c - 1) :
                          ~(match(b, d.opts) /\ (~COMMANDS[b].interactive_only \/ pinter))
              /\ t.c = 0 =>
                    \A b \in Handlers :
                          ~(match(b, d.opts) /\ (~COMMANDS[b].interactive_only \/ pinter))
              /\ Cardinality({k \in DOMAIN regLog : regLog[k].task = i}) <= 1

(* C8 witness: start --enable entered the start handler *)
C8_Witness ==
    \E i \in DOMAIN tasks :
        /\ tasks[i].cmd = Line(<<"start", "--enable">>)
        /\ tasks[i].pc = "awaiting"
        /\ tasks[i].c = HandlerOf("start")

(* C9: a line with an unclosed quotation yields an EXCEPTION envelope, a   *)
(* line that tokenizes but breaks the grammar a COMMAND-ERROR envelope,    *)
(* and a RESULT envelope is given only to a line that parsed.              *)
DoubleQuotes(cmd) == Len(SelectSeq(cmd, LAMBDA a : a = DQ))

C9_ParseFailureKinds ==
    \A i \in DOMAIN tasks :
        LET t == tasks[i]
            s == ShlexSplit(t.cmd)
        IN  (Ended(t) /\ t.cmd # <<>>) =>
              /\ DoubleQuotes(t.cmd) % 2 = 1 =>
                    (t.result # None /\ t.result[1].tag = "EXCEPTION")
              /\ (s.ok /\ ~Docopt(s.toks).ok) =>
                    (t.result # None /\ t.result[1].tag = "COMMAND-ERROR")
              /\ (t.result # None /\ t.result[1].tag = "RESULT") =>
                    (DoubleQuotes(t.cmd) % 2 = 0 /\ s.ok /\ Docopt(s.toks).ok)

(* C9 witness: an unclosed quotation was answered with EXCEPTION *)
C9_Witness ==
    \E i \in DOMAIN tasks :
        /\ Ended(tasks[i])
        /\ tasks[i].cmd = <<"start", SP, DQ, "svcA">>
        /\ tasks[i].result = Some(Envelope("EXCEPTION", <<NO_CLOSING>>))

(* C10: shutdown without a delay, or with now in any case, schedules       *)
(* kill_system once at 0.1 s; with a number, once at that delay; with      *)
(* anything else it schedules nothing and answers with the validation      *)
(* message in a RESULT envelope.                                           *)
NowWords     == {"now", "NOW"}
NumericWords == {"5"}

C10_ShutdownScheduling ==
    \A i \in DOMAIN tasks :
        LET t == tasks[i]
        IN  Ended(t) =>
              /\ t.cmd = Line(<<"shutdown">>) => scheduled = <<100>>
              /\ \A w \in WideWords \ LongAtoms :
                    t.cmd = Line(<<"shutdown", w>>) =>
                        IF w \in NowWords THEN scheduled = <<100>>
                        ELSE IF w \in NumericWords THEN scheduled = <<5000>>
                        ELSE /\ scheduled = <<>>
                             /\ t.result = Some(Envelope("RESULT",
                                  <<"Specified delay is not a valid decimal number: ", w>>))

(* C10 witness: shutdown abc was answered with the validation message *)
C10_Witness ==
    \E i \in DOMAIN tasks :
        /\ Ended(tasks[i])
        /\ tasks[i].cmd = Line(<<"shutdown", "abc">>)
        /\ scheduled = <<>>
        /\ tasks[i].result # None /\ tasks[i].result[1].tag = "RESULT"

(* The command tasks created for a connection *)
TasksOf(conn) == {k \in DOMAIN tasks : tasks[k].conn = conn}

(* C11: a socket connection whose buffers hold commands executes one of    *)
(* them only: one task is created for it, the registry is called for it at *)
(* most once, and one reply is written and one close issued.  Refuted: a   *)
(* second buffer read while the first command is suspended in the registry *)
(* is dispatched as well, and answered after the connection was closed.    *)
C11_OneCommandPerConnection ==
    \A conn \in Socks :
        (\A k \in TasksOf(conn) : tasks[k].cmd # <<>>) =>
            /\ Cardinality(TasksOf(conn)) <= 1
            /\ Cardinality({k \in DOMAIN regLog : regLog[k].task \in TasksOf(conn)}) <= 1
            /\ Len(transport[conn].written) <= 1
            /\ transport[conn].closes <= 1

(* The lines of a pipe buffer, put together again *)
RECURSIVE JoinLines(_)
JoinLines(ls) ==
    IF ls = <<>> THEN <<>>
    ELSE IF Len(ls) = 1 THEN ls[1]
    ELSE ls[1] \o <<NL>> \o JoinLines(Tail(ls))

Newlines(data) == Len(SelectSeq(data, LAMBDA a : a = NL))

(* The first step of a started task is open to it whatever its line holds  *)
(* and whatever became of the other tasks.                                 *)
FirstStepOpen(i) ==
    LET h == HeadOf(i)
    IN  \/ h.kind = "return"
        \/ /\ h.kind = "exec"
           /\ COMMANDS[h.c].command_name \in Verbs

(* Nothing is written to the pipe and it is never closed; a pipe task      *)
(* holds one line, and none waits for another task to end.                 *)
C12_PipeState ==
    /\ transport["pipe"].written = <<>>
    /\ transport["pipe"].closes = 0
    /\ \A i \in TasksOf("pipe") :
          /\ NL \notin Range(tasks[i].cmd)
          /\ ~tasks[i].interactive
          /\ Ended(tasks[i]) => tasks[i].pc = "done"
          /\ Runnable(i) => FirstStepOpen(i)

(* A pipe buffer of n lines creates n tasks at once, one per line, in order *)
C12_PipeDispatch ==
    Len(tasks') > Len(tasks) =>
        \A data \in PipeBuffers :
            DataReceived("pipe", data) =>
                LET new == SubSeq(tasks', Len(tasks) + 1, Len(tasks'))
                IN  /\ Len(new) = Newlines(data) + 1
                    /\ JoinLines([k \in DOMAIN new |-> new[k].cmd]) = data
                    /\ \A k \in DOMAIN new :
                          new[k].conn = "pipe" /\ new[k].pc = "new"

(* C12: a pipe buffer is dispatched as one task per line, all created in   *)
(* the same step; a line that fails, matches nothing, raises or suspends   *)
(* holds up no other line; nothing is written to the pipe transport and it *)
(* is never closed.                                                        *)
C12_PipeLinesIndependent == [](C12_PipeState) /\ [][C12_PipeDispatch]_vars

(* C12 witness: of two lines read from the pipe the first is suspended in  *)
(* the registry and the second has completed, with nothing written.        *)
C12_Witness ==
    /\ Len(tasks) = 2
    /\ tasks[1].conn = "pipe" /\ tasks[1].pc = "awaiting"
    /\ tasks[2].conn = "pipe" /\ tasks[2].pc = "done" /\ tasks[2].c # 0
    /\ transport["pipe"].written = <<>>

(* C13: once CommandServer.close() has run, the FIFO that _open created at *)
(* the configured path is gone, and so is the socket file the interactive  *)
(* server bound.  Refuted for a server constructed with a FIFO name other  *)
(* than CHAP_FIFO: close() removes CHAP_FIFO, not self._fifoname.          *)
C13_CloseRemovesFiles ==
    srv.pc = "closed" =>
        /\ srv.opened => fs[srv.fifoname] = "absent"
        /\ srv.iserve # "none" => fs[CHAP_SOCK] = "absent"

(* The level a loglevel line names: *.L names the level L names *)
LevelNamed(cmd) ==
    IF cmd = Line(<<"loglevel", "info">>) THEN <<"info">> ELSE <<"warn">>

(* tok occurs in body *)
Contains(body, tok) ==
    \E k \in 0..(Len(body) - Len(tok)) : SubSeq(body, k + 1, k + Len(tok)) = tok

(* The loglevel commands with a level that have been executed *)
LevelsSet == {i \in DOMAIN tasks : Ended(tasks[i]) /\ tasks[i].cmd \in LogLines
                                   /\ tasks[i].cmd # Line(<<"loglevel">>)}

(* The controller holds the level the latest loglevel L command named *)
C14_LatestLevelKept ==
    LevelsSet # {} =>
        LET last == CHOOSE i \in LevelsSet : \A j \in LevelsSet : j <= i
        IN  forcedLevel = Some(LevelNamed(tasks[last].cmd))

(* What one loglevel command does *)
C14_LoglevelStep ==
    \A i \in DOMAIN tasks :
        (tasks[i].pc = "new" /\ tasks'[i].pc # "new" /\ tasks[i].cmd \in LogLines) =>
            LET res == tasks'[i].result
            IN  /\ tasks'[i].pc = "done"
                /\ res # None /\ res[1].tag = "RESULT"
                /\ IF tasks[i].cmd = Line(<<"loglevel">>)
                   THEN /\ forcedLevel' = forcedLevel
                        /\ IF forcedLevel = None
                           THEN res[1].body = <<"Forced Logging Level: NOT SET">>
                           ELSE Contains(res[1].body, forcedLevel[1])
                   ELSE forcedLevel' = Some(LevelNamed(tasks[i].cmd))

NamesOn(cmd) ==
    LET pos == Tail(PlainPositionals(cmd))
    IN  [k \in DOMAIN pos |-> <<pos[k]>>]

(* C15: a well-formed stop, start or reset line reaches the registry       *)
(* exactly once, as the operation of its verb, with the names of the line  *)
(* in order: the empty list when the line names no service, whatever flags *)
(* it carries and whichever transport it came by.                          *)
C15_RegistryNames ==
    \A i \in DOMAIN tasks :
        LET calls == {k \in DOMAIN regLog : regLog[k].task = i}
        IN  IF tasks[i].pc = "new" THEN calls = {}
            ELSE /\ Cardinality(calls) = 1
                 /\ \A k \in calls :
                       /\ regLog[k].call.op = tasks[i].cmd[1]
                       /\ regLog[k].call.names = NamesOn(tasks[i].cmd)

(* C15 witness: stop with all its flags and no name, over the pipe, has    *)
(* called the registry once with the empty list and has ended              *)
C15_Witness ==
    /\ tasks[1].conn = "pipe"
    /\ tasks[1].cmd[1] = "stop"
    /\ {"--force", "--wait", "--disable"} \subseteq Range(tasks[1].cmd)
    /\ PlainPositionals(tasks[1].cmd) = <<"stop">>
    /\ Ended(tasks[1])
    /\ Len(regLog) = 1
    /\ regLog[1].call.op = "stop"
    /\ regLog[1].call.names = <<>>

(* The positions a process_started_co call passes through *)
StartOrder == {<<"pause", "pidfile">>, <<"pidfile", "done">>,
               <<"pause", "failed">>, <<"pidfile", "failed">>}

(* One step of a process_started_co call, as claimed *)
C16_StartStep ==
    /\ \A k \in DOMAIN starts :
          starts'[k] # starts[k] => <<starts[k], starts'[k]>> \in StartOrder
    \* a call is entered: the prior monitor, when there is one, is cancelled
    /\ Len(starts') > Len(starts) =>
          /\ starts'[Len(starts')] = "pause"
          /\ Len(monTasks') = Len(monTasks)
    \* a monitor is created and recorded only as a call's pidfile wait ends
    /\ Len(monTasks') > Len(monTasks) =>
          /\ \E k \in DOMAIN starts : starts[k] = "pidfile" /\ starts'[k] = "done"
          /\ futMonitor' = Len(monTasks')
    \* a call that fails creates no monitor and leaves no monitor reference
    /\ \A k \in DOMAIN starts :
          (starts[k] # "failed" /\ starts'[k] = "failed") =>
              /\ monTasks' = monTasks
              /\ futMonitor' = 0

(* C16: process_started_co cancels the prior monitor, then pauses, then    *)
(* waits for the pidfile, then attaches the monitor; a call whose pause or *)
(* pidfile wait fails creates no monitor and the handle holds no monitor   *)
(* reference after it.  Refuted: a call that fails while another call on   *)
(* the handle has attached its monitor leaves that reference in place.     *)
C16_StartSteps == [][C16_StartStep]_vars

Finished(st) == st \in {"done", "cancelled"}

(* One step of the handle, as claimed: _abnormal_exit is called as a       *)
(* monitor resumes with an integer above zero, with that integer, and at   *)
(* no other step.                                                          *)
C17_MonitorStep ==
    IF \E m \in DOMAIN monTasks : monTasks[m].st = "ready" /\ monTasks'[m].st = "done"
    THEN \A m \in DOMAIN monTasks :
            (monTasks[m].st = "ready" /\ monTasks'[m].st = "done") =>
                LET res == monTasks[m].res
                IN  IF res \in WaitResults /\ res.isInt /\ res.code >= 1
                    THEN /\ Len(abnormalCalls') = Len(abnormalCalls) + 1
                         /\ SubSeq(abnormalCalls', 1, Len(abnormalCalls)) = abnormalCalls
                         /\ abnormalCalls'[Len(abnormalCalls')].monitor = m
                         /\ abnormalCalls'[Len(abnormalCalls')].code = res.code
                    ELSE abnormalCalls' = abnormalCalls
    ELSE abnormalCalls' = abnormalCalls

(* A monitor whose child has terminated comes to its end *)
C17_MonitorFinishes ==
    \A m \in 1..MaxStarts :
        (m \in DOMAIN monTasks /\ monTasks[m].st = "ready")
            ~> (m \in DOMAIN monTasks /\ Finished(monTasks[m].st))

(* C17: _monitor_service calls _abnormal_exit exactly when self.wait()     *)
(* returned an integer greater than zero, and passes it; for zero, a       *)
(* negative code or a result that is no integer it calls nothing; and a    *)
(* monitor whose child terminated eventually finishes.                     *)
C17_ExitWatcher == [][C17_MonitorStep]_vars /\ C17_MonitorFinishes

(* C17 witness: one monitor resumed with exit code 3 and called            *)
(* _abnormal_exit(3); another resumed with -15 and called nothing          *)
C17_Witness ==
    /\ Len(abnormalCalls) = 1
    /\ abnormalCalls[1].monitor = 1 /\ abnormalCalls[1].code = 3
    /\ Len(monTasks) >= 2
    /\ monTasks[1].st = "done" /\ monTasks[1].res.code = 3
    /\ monTasks[2].st = "done" /\ monTasks[2].res.code = -15

(* The reply of start, stop and reset by the verb and the command's own    *)
(* wait                                                                    *)
OwnReply(verb, own) ==
    CASE verb = "start" -> IF own THEN <<"services started.">>
                           ELSE <<"service start-up queued.">>
      [] verb = "stop"  -> IF own THEN <<"services stopped.">>
                           ELSE <<"services stopping.">>
      [] OTHER          -> <<"services reset.">>

(* C18: whatever commands of other sessions ran through the same handler   *)
(* in the meantime, a start, stop or reset command passes to the registry  *)
(* wait = (its own line has --wait and its own session is a socket), and   *)
(* its reply is the text for that same value.                              *)
C18_OwnSessionOnly ==
    \A i \in DOMAIN tasks :
        LET t    == tasks[i]
            own  == "--wait" \in Range(t.cmd) /\ t.conn \in Socks
        IN  (t.c # 0 /\ COMMANDS[t.c].command_name \in {"start", "stop", "reset"}) =>
              /\ \A k \in DOMAIN regLog :
                    regLog[k].task = i => regLog[k].call.kwargs["wait"] = own
              /\ (t.pc = "done" /\ ~t.raised) =>
                    t.result = Some(Envelope("RESULT",
                                    OwnReply(COMMANDS[t.c].command_name, own)))

(* C18 witness: stop --wait from a socket was suspended in the registry    *)
(* when stop --wait from the pipe ran through the same handler and set its *)
(* attribute to False; the socket command was then answered services       *)
(* stopped.                                                                *)
C18_Witness ==
    /\ Len(tasks) = 2
    /\ tasks[1].conn \in Socks /\ tasks[2].conn = "pipe"
    /\ tasks[1].cmd = Line(<<"stop", "--wait">>)
    /\ tasks[2].cmd = Line(<<"stop", "--wait">>)
    /\ tasks[2].pc = "awaiting"
    /\ hInteractive[HandlerOf("stop")] = FALSE
    /\ tasks[1].pc = "done"
    /\ tasks[1].result = Some(Envelope("RESULT", <<"services stopped.">>))
    /\ regLog[1].call.kwargs["wait"] = TRUE
    /\ regLog[2].call.kwargs["wait"] = FALSE

(* C19: no termination of the child leads to two calls of _abnormal_exit,  *)
(* and every monitor that called it ran to its end: none that was          *)
(* cancelled called it.  Refuted: two overlapping starts leave two         *)
(* monitors waiting, and one exit with a positive code resumes both.       *)
C19_OncePerTermination ==
    /\ \A a, b \in DOMAIN abnormalCalls :
          a # b => abnormalCalls[a].child # abnormalCalls[b].child
    /\ \A a \in DOMAIN abnormalCalls :
          monTasks[abnormalCalls[a].monitor].st = "done"

(* The line is empty, does not tokenize, breaks the grammar, or asks for   *)
(* status or dependencies on a session that is not interactive             *)
Unserved(t) ==
    \/ t.cmd = <<>>
    \/ DoubleQuotes(t.cmd) % 2 = 1
    \/ ShlexSplit(t.cmd).ok /\ ~Docopt(ShlexSplit(t.cmd).toks).ok
    \/ /\ ~ProtocolInteractive(t.conn)
       /\ Unquoted(t.cmd)
       /\ PlainPositionals(t.cmd) # <<>>
       /\ PlainPositionals(t.cmd)[1] \in {"status", "dependencies"}

(* C20: such a line enters no handler, calls neither the registry nor the  *)
(* controller and schedules no shutdown: the registry log, the forced log  *)
(* level, the shutdown timers and the handlers' attributes are as they     *)
(* were before it.                                                         *)
C20_UnservedLineChangesNothing ==
    \A i \in DOMAIN tasks :
        Unserved(tasks[i]) =>
            /\ tasks[i].c = 0
            /\ tasks[i].pc \in {"new", "done", "failed"}
            /\ regLog = <<>>
            /\ forcedLevel = None
            /\ scheduled = <<>>
            /\ hInteractive = [c \in Handlers |-> FALSE]

(* C20 witness: stop --enable, which the grammar rejects, was answered     *)
(* with COMMAND-ERROR on a socket and the registry was not called          *)
C20_Witness ==
    /\ tasks[1].cmd = Line(<<"stop", "--enable">>)
    /\ tasks[1].conn = "sock1"
    /\ Ended(tasks[1])
    /\ tasks[1].result = Some(Envelope("COMMAND-ERROR", <<USAGE_TEXT>>))
    /\ regLog = <<>>
=============================================================================
